---- MODULE Spec2Model ----
(***************************************************************************)
(* Model of main.py: the Google Next transcript scraper.                   *)
(*                                                                         *)
(*   run():  read google-next.html -> sanitize_text -> parse_html          *)
(*           -> get_presentation_transcripts (filter, print, fetch)        *)
(*           -> ndjson.dump to transcripts.ndjson                          *)
(*                                                                         *)
(* Python strings are TLA+ strings (TLC treats them as sequences of        *)
(* one-character strings under Len, SubSeq and \o); the text handled by    *)
(* sanitize_text is a sequence of code points because the function tests   *)
(* ord(c).  An optional value (None or a value) is a sequence of length    *)
(* zero or one.  The DOM that BeautifulSoup builds is the input: a card is *)
(* a record of the sub-elements card.find() looks up.                      *)
(***************************************************************************)
EXTENDS Integers, Sequences, FiniteSets, TLC

VARIABLES pc, html, text, presentations, filtered, idx, log, out, err,
          input, output

vars == <<pc, html, text, presentations, filtered, idx, log, out, err,
          input, output>>

(***************************************************************************)
(* Bounds of the model.                                                    *)
(***************************************************************************)
MaxCards == 3
MaxParseCards == 2
MaxText == 3
MaxFragments == 2
MaxFragLen == 2

(***************************************************************************)
(* Python values.                                                          *)
(***************************************************************************)
None == <<>>
Some(v) == <<v>>
IsNone(o) == Len(o) = 0
Val(o) == o[1]

Ok(v) == [ok |-> TRUE, val |-> v]
Raise(e) == [ok |-> FALSE, exc |-> e]

\* The i-th character of a string, as a one-character string.
Char(s, i) == SubSeq(s, i, i)
\* The empty string of the kind of s ("" for a string, <<>> for code points).
Empty(s) == SubSeq(s, 1, 0)

\* str.startswith(prefix)
StartsWith(s, prefix) ==
    /\ Len(s) >= Len(prefix)
    /\ SubSeq(s, 1, Len(prefix)) = prefix

\* s[i:].startswith(old), i counted from 1
MatchAt(s, old, i) ==
    /\ i + Len(old) - 1 <= Len(s)
    /\ SubSeq(s, i, i + Len(old) - 1) = old

\* str.replace(old, new) for a non-empty old: the non-overlapping
\* occurrences of old, found left to right, are replaced by new.
RECURSIVE ReplaceFrom(_, _, _, _)
ReplaceFrom(s, old, new, i) ==
    IF i > Len(s) THEN Empty(s)
    ELSE IF MatchAt(s, old, i)
         THEN new \o ReplaceFrom(s, old, new, i + Len(old))
         ELSE SubSeq(s, i, i) \o ReplaceFrom(s, old, new, i + 1)

Replace(s, old, new) == ReplaceFrom(s, old, new, 1)

\* str.isspace() on the characters the model draws text from.
Whitespace == {" ", "\n", "\t"}
IsSpace(c) == c \in Whitespace

\* str.strip(): drop the leading and the trailing whitespace.
RECURSIVE LStrip(_)
LStrip(s) ==
    IF Len(s) > 0 /\ IsSpace(Char(s, 1))
    THEN LStrip(SubSeq(s, 2, Len(s)))
    ELSE s

RECURSIVE RStrip(_)
RStrip(s) ==
    IF Len(s) > 0 /\ IsSpace(Char(s, Len(s)))
    THEN RStrip(SubSeq(s, 1, Len(s) - 1))
    ELSE s

Strip(s) == RStrip(LStrip(s))

\* str.split(sep) for a one-character sep: the segments between the
\* separators, empty segments included; cur is the segment being read.
RECURSIVE SplitFrom(_, _, _, _)
SplitFrom(s, sep, i, cur) ==
    IF i > Len(s) THEN <<cur>>
    ELSE IF Char(s, i) = sep
         THEN <<cur>> \o SplitFrom(s, sep, i + 1, "")
         ELSE SplitFrom(s, sep, i + 1, cur \o Char(s, i))

Split(s, sep) == SplitFrom(s, sep, 1, "")

\* str.split() without argument: the maximal runs of non-whitespace.
RECURSIVE SplitWsFrom(_, _, _)
SplitWsFrom(s, i, cur) ==
    IF i > Len(s)
    THEN IF cur = "" THEN <<>> ELSE <<cur>>
    ELSE IF IsSpace(Char(s, i))
         THEN (IF cur = "" THEN <<>> ELSE <<cur>>) \o SplitWsFrom(s, i + 1, "")
         ELSE SplitWsFrom(s, i + 1, cur \o Char(s, i))

SplitWs(s) == SplitWsFrom(s, 1, "")

\* sep.join(parts)
RECURSIVE Join(_, _)
Join(sep, parts) ==
    IF Len(parts) = 0 THEN ""
    ELSE IF Len(parts) = 1 THEN parts[1]
    ELSE parts[1] \o sep \o Join(sep, Tail(parts))

(***************************************************************************)
(* parse_html.  A card is the div.resourceCard-content node; each field    *)
(* is what card.find() returns for it, None when the element is absent.    *)
(* glue_label holds the list category_node.find_all("span") returns, each  *)
(* span with its text and its attribute dictionary; img holds the          *)
(* attribute dictionary of the <img>.                                      *)
(***************************************************************************)
YtimgPrefix == "https://i.ytimg.com/vi"

\* link.split("/")[4] if link.startswith("https://i.ytimg.com/vi") else None
VideoId(link) ==
    IF StartsWith(link, YtimgPrefix)
    THEN IF Len(Split(link, "/")) >= 5
         THEN Ok(Some(Split(link, "/")[5]))
         ELSE Raise("IndexError")
    ELSE Ok(None)

\* Variant of Visible that looks at the value of aria-hidden instead of its
\* presence.
VisibleUnlessTrue(span) ==
    \/ "aria-hidden" \notin DOMAIN span.attrs
    \/ span.attrs["aria-hidden"] # "true"

\* [span.text for span in category_node.find_all("span")
\*            if "aria-hidden" not in span.attrs]
Visible(span) == "aria-hidden" \notin DOMAIN span.attrs

SpanTexts(spans) == [k \in 1..Len(spans) |-> spans[k].text]

Categories(spans) == SpanTexts(SelectSeq(spans, Visible))

\* card.find("div", class_="resource-time-small").text.replace("\n", "").strip()
TimeOf(t) == Strip(Replace(t, "\n", ""))

\* The body of the loop of parse_html for one card: the lookups in the
\* order the code makes them, the first failing one raising.
ParseCard(card) ==
    IF IsNone(card.time) THEN Raise("AttributeError")
    ELSE IF IsNone(card.label) THEN Raise("AttributeError")
    ELSE IF IsNone(card.glue_label) THEN Raise("AttributeError")
    ELSE IF IsNone(card.headline) THEN Raise("AttributeError")
    ELSE IF IsNone(card.img) THEN Raise("AttributeError")
    ELSE IF "srcset" \notin DOMAIN Val(card.img) THEN Raise("KeyError")
    ELSE LET vid == VideoId(Val(card.img)["srcset"])
         IN  IF ~vid.ok THEN vid
             ELSE Ok([title             |-> Val(card.headline),
                      presentation_type |-> Val(card.label),
                      categories        |-> Categories(Val(card.glue_label)),
                      video_id          |-> vid.val,
                      time              |-> TimeOf(Val(card.time))])

\* for i in range(len(presentations)): presentations[i] = {...}
\* done holds the records that have replaced the first i-1 cards.
RECURSIVE ParseFrom(_, _, _)
ParseFrom(cards, i, done) ==
    IF i > Len(cards) THEN [ok |-> TRUE, val |-> done, exc |-> ""]
    ELSE LET r == ParseCard(cards[i])
         IN  IF r.ok
             THEN ParseFrom(cards, i + 1, Append(done, r.val))
             ELSE [ok |-> FALSE, val |-> done, exc |-> r.exc]

\* parse_html(html): val is the list returned when ok; when the parse
\* raises exc, val is the records built before the card that failed.
parse_html(cards) == ParseFrom(cards, 1, <<>>)

(***************************************************************************)
(* sanitize_text.  The text is a sequence of code points.                  *)
(***************************************************************************)
\* unsafe_chars, in the insertion order the loop follows.
UnsafeChars ==
    << [key |-> <<1090, 1040, 1065>>, value |-> <<39>>],
       [key |-> <<1090, 1040, 1074>>, value |-> <<45>>],
       [key |-> <<1090, 1040, 1059>>, value |-> <<45>>],
       [key |-> <<1090, 1040, 1060>>, value |-> <<45>>],
       [key |-> <<9516, 1086>>,       value |-> <<>>],
       [key |-> <<9500, 1073>>,       value |-> <<97>>],
       [key |-> <<1090, 1044, 1074>>, value |-> <<>>],
       [key |-> <<9500, 9570>>,       value |-> <<111>>],
       [key |-> <<9532, 1053>>,       value |-> <<111>>],
       [key |-> <<9500, 9474>>,       value |-> <<111>>],
       [key |-> <<1090, 1040, 1064>>, value |-> <<39>>],
       [key |-> <<1090, 1040, 1051>>, value |-> <<>>] >>

\* Variant of ReplaceUnsafe with the arguments of replace swapped:
\* text.replace(value, key), the empty values skipped.
RECURSIVE ReplaceUnsafeSwapped(_, _)
ReplaceUnsafeSwapped(t, k) ==
    IF k > Len(UnsafeChars) THEN t
    ELSE IF UnsafeChars[k].value = <<>> THEN ReplaceUnsafeSwapped(t, k + 1)
    ELSE ReplaceUnsafeSwapped(
             Replace(t, UnsafeChars[k].value, UnsafeChars[k].key), k + 1)

\* for key, value in unsafe_chars.items(): text = text.replace(key, value)
RECURSIVE ReplaceUnsafe(_, _)
ReplaceUnsafe(t, k) ==
    IF k > Len(UnsafeChars) THEN t
    ELSE ReplaceUnsafe(Replace(t, UnsafeChars[k].key, UnsafeChars[k].value),
                       k + 1)

\* all(ord(c) < 128 for c in text)
IsAscii(t) == \A i \in 1..Len(t) : t[i] < 128

sanitize_text(t) ==
    LET replaced == ReplaceUnsafe(t, 1)
    IN  IF IsAscii(replaced) THEN Ok(replaced) ELSE Raise("AssertionError")

(***************************************************************************)
(* get_transcript.  The argument is what the transcript service returned   *)
(* for the video: a list of caption fragments, each with a text.           *)
(***************************************************************************)
\* Variant of Collapse that only trims: combined_text.strip()
CollapseStripOnly(s) == Strip(s)

\* " ".join(combined_text.split())
Collapse(s) == Join(" ", SplitWs(s))

\* "".join([t["text"] for t in transcript])
CombinedText(transcript) ==
    Join("", [k \in 1..Len(transcript) |-> transcript[k].text])

get_transcript(transcript) == Collapse(CombinedText(transcript))

(***************************************************************************)
(* Inputs: the documents google-next.html may hold and the answers the     *)
(* transcript service may give.                                            *)
(***************************************************************************)
Span(t, a) == [text |-> t, attrs |-> a]
NoAttrs == [a \in {} |-> ""]
AriaHidden(v) == [a \in {"aria-hidden"} |-> v]
Srcset(url) == [a \in {"srcset"} |-> url]

Card(t, l, g, h, i) ==
    [time |-> t, label |-> l, glue_label |-> g, headline |-> h, img |-> i]

KeynoteTitle == <<75, 101, 121>>
MojibakeTitle == <<73, 1090, 1040, 1065, 115>>
UnmappedTitle == <<233>>

TwoCategories ==
    << Span("Data Analytics", NoAttrs), Span(", ", AriaHidden("true")),
       Span("AI & ML", NoAttrs) >>

SpanLists ==
    { <<>>,
      TwoCategories,
      << Span("x", AriaHidden("false")), Span("Security", NoAttrs) >>,
      << Span("A", NoAttrs), Span("B", AriaHidden("")), Span("A", NoAttrs) >> }

ThumbnailUrls ==
    { "https://i.ytimg.com/vi/ABC123/default.jpg",
      "https://i.ytimg.com/vi/XYZ789/hq.jpg 2x",
      "https://i.ytimg.com/vi//default.jpg",
      "https://i.ytimg.com/vi",
      "http://i.ytimg.com/vi/ABC123/default.jpg",
      "https://example.com/a/b/c.png" }

TimeTexts == { "\n 9:00 AM - 9:30 AM \n", "10:00 AM" }

VideoCard(title, url) ==
    Card(Some("\n 9:00 AM - 9:30 AM \n"), Some("Keynote"), Some(TwoCategories),
         Some(title), Some(Srcset(url)))

\* The cards of the documents parse_html is applied to on its own.
ParseCards ==
    {VideoCard(KeynoteTitle, u) : u \in ThumbnailUrls}
    \cup {Card(Some(t), Some("Breakout Session"), Some(g), Some(KeynoteTitle),
               Some(Srcset("https://i.ytimg.com/vi/ABC123/default.jpg")))
            : t \in TimeTexts, g \in SpanLists}
    \cup {Card(None, Some("Keynote"), Some(<<>>), Some(KeynoteTitle),
               Some(Srcset("https://example.com/a/b/c.png"))),
          Card(Some("10:00 AM"), None, Some(<<>>), Some(KeynoteTitle),
               Some(Srcset("https://example.com/a/b/c.png"))),
          Card(Some("10:00 AM"), Some("Keynote"), None, Some(KeynoteTitle),
               Some(Srcset("https://example.com/a/b/c.png"))),
          Card(Some("10:00 AM"), Some("Keynote"), Some(<<>>), None,
               Some(Srcset("https://example.com/a/b/c.png"))),
          Card(Some("10:00 AM"), Some("Keynote"), Some(<<>>), Some(KeynoteTitle),
               None),
          Card(Some("10:00 AM"), Some("Keynote"), Some(<<>>), Some(KeynoteTitle),
               Some(NoAttrs))}

\* The cards of the documents run() reads: two videos under one title, a
\* card without video, a card without headline, a card whose title holds
\* a character unsafe_chars does not map.
RunCards ==
    { VideoCard(KeynoteTitle, "https://i.ytimg.com/vi/ABC123/default.jpg"),
      VideoCard(KeynoteTitle, "https://i.ytimg.com/vi/XYZ789/hq.jpg 2x"),
      VideoCard(MojibakeTitle, "https://example.com/a/b/c.png"),
      Card(Some("10:00 AM"), Some("Keynote"), Some(<<>>), None,
           Some(Srcset("https://i.ytimg.com/vi/ABC123/default.jpg"))),
      VideoCard(UnmappedTitle, "https://i.ytimg.com/vi/ABC123/default.jpg") }

SeqsUpTo(S, n) == UNION {[1..m -> S] : m \in 0..n}

\* The answers of YouTubeTranscriptApi.get_transcript when it returns.
ServiceTranscripts ==
    { <<>>, << [text |-> "Hello "], [text |-> " world\n"] >> }

\* The characters sanitize_text is tried on: the values and some key
\* characters of unsafe_chars, and one character it does not map.
SanitizeAlphabet == {39, 45, 97, 1090, 1040, 1065, 9500, 1073, 233}

\* The characters caption fragments are drawn from.
CaptionAlphabet == {"a", " ", "\n"}

RECURSIVE StringsUpTo(_, _)
StringsUpTo(A, n) ==
    IF n = 0 THEN {""}
    ELSE LET S == StringsUpTo(A, n - 1)
         IN  S \cup {s \o c : s \in S, c \in A}

Fragments == {[text |-> s] : s \in StringsUpTo(CaptionAlphabet, MaxFragLen)}

(***************************************************************************)
(* run().  pc is the position in run() and in the loop of                  *)
(* get_presentation_transcripts.  presentations is the list of record      *)
(* dictionaries; filtered holds references to them (their indices), as     *)
(* the list comprehension keeps the same dictionary objects.  log is the   *)
(* sequence of externally visible events: lines printed, calls of the      *)
(* transcript service and their outcomes, and the opening and writing of   *)
(* transcripts.ndjson.  out is the content of transcripts.ndjson, None     *)
(* while the file has not been opened.                                     *)
(***************************************************************************)

\* sanitize_text(f.read()): the replacements and the assertion range over
\* the whole file; the only text of the modelled documents outside 7-bit
\* ASCII is in the headlines, and no key of unsafe_chars holds a 7-bit
\* character, so no replacement spans the markup around a headline.
SanitizeDocument(cards) ==
    LET san(i) == sanitize_text(Val(cards[i].headline))
        bad == {i \in 1..Len(cards) :
                    ~IsNone(cards[i].headline) /\ ~san(i).ok}
    IN  IF bad # {} THEN Raise("AssertionError")
        ELSE Ok([i \in 1..Len(cards) |->
                   IF IsNone(cards[i].headline) THEN cards[i]
                   ELSE [cards[i] EXCEPT !.headline = Some(san(i).val)]])

\* [p for p in presentations if p["video_id"] is not None], as references
Indices(recs) == [i \in 1..Len(recs) |-> i]

\* Variant of FilterIndices without the test: every record is kept.
FilterIndicesKeepAll(recs) == Indices(recs)

\* Variant of FilterIndices that keeps one record per title.
FilterIndicesUniqueTitles(recs) ==
    LET FirstWithVideo(i) ==
            /\ recs[i].video_id # None
            /\ \A j \in 1..(i - 1) :
                  recs[j].video_id # None => recs[j].title # recs[i].title
    IN  SelectSeq(Indices(recs), FirstWithVideo)

FilterIndices(recs) ==
    LET HasVideo(i) == recs[i].video_id # None
    IN  SelectSeq(Indices(recs), HasVideo)

\* p["transcript"] = t on the dictionary p
SetTranscript(p, t) ==
    [k \in DOMAIN p \cup {"transcript"} |->
        IF k = "transcript" THEN Some(t) ELSE p[k]]

Init ==
    /\ pc = "sanitize"
    /\ html \in SeqsUpTo(RunCards, MaxCards)
    /\ text = None
    /\ presentations = <<>>
    /\ filtered = <<>>
    /\ idx = 1
    /\ log = <<>>
    /\ out = None
    /\ err = None
    /\ input = None
    /\ output = None

\* Variant of Sanitize with the assertion off: the text goes on to
\* parse_html whatever it holds.
SanitizeUnchecked ==
    /\ pc = "sanitize"
    /\ text' = Some(html)
    /\ pc' = "parse"
    /\ UNCHANGED <<html, presentations, filtered, idx, log, out, err,
                   input, output>>

\* line 126, inner call: sanitize_text(f.read())
Sanitize ==
    /\ pc = "sanitize"
    /\ LET r == SanitizeDocument(html)
       IN  IF r.ok
           THEN /\ text' = Some(r.val)
                /\ pc' = "parse"
                /\ err' = err
           ELSE /\ text' = text
                /\ pc' = "raised"
                /\ err' = Some(r.exc)
    /\ UNCHANGED <<html, presentations, filtered, idx, log, out, input, output>>

\* line 126, outer call: presentations = parse_html(...)
Parse ==
    /\ pc = "parse"
    /\ LET r == parse_html(Val(text))
       IN  IF r.ok
           THEN /\ presentations' = r.val
                /\ pc' = "filter"
                /\ err' = err
           ELSE /\ presentations' = presentations
                /\ pc' = "raised"
                /\ err' = Some(r.exc)
    /\ UNCHANGED <<html, text, filtered, idx, log, out, input, output>>

\* line 79: filtered_presentations = [...]
Filter ==
    /\ pc = "filter"
    /\ filtered' = FilterIndices(presentations)
    /\ idx' = 1
    /\ pc' = "loop"
    /\ UNCHANGED <<html, text, presentations, log, out, err, input, output>>

\* Variant of PrintTitle that prints nothing.
PrintTitleSilent ==
    /\ pc = "loop"
    /\ idx <= Len(filtered)
    /\ pc' = "call"
    /\ UNCHANGED <<html, text, presentations, filtered, idx, log, out, err,
                   input, output>>

\* line 83: print(p["title"])
PrintTitle ==
    /\ pc = "loop"
    /\ idx <= Len(filtered)
    /\ log' = Append(log, [ev |-> "print", rec |-> filtered[idx],
                           line |-> presentations[filtered[idx]].title])
    /\ pc' = "call"
    /\ UNCHANGED <<html, text, presentations, filtered, idx, out, err,
                   input, output>>

\* line 84 and 66: YouTubeTranscriptApi.get_transcript(video_id) is called
FetchCall ==
    /\ pc = "call"
    /\ log' = Append(log, [ev |-> "call", rec |-> filtered[idx],
                           video_id |-> presentations[filtered[idx]].video_id])
    /\ pc' = "fetch"
    /\ UNCHANGED <<html, text, presentations, filtered, idx, out, err,
                   input, output>>

\* lines 66-68 and 84: the service answers, p["transcript"] is set
FetchReturn ==
    /\ pc = "fetch"
    /\ \E transcript \in ServiceTranscripts :
          presentations' =
              [presentations EXCEPT ![filtered[idx]] =
                  SetTranscript(@, get_transcript(transcript))]
    /\ log' = Append(log, [ev |-> "return", rec |-> filtered[idx]])
    /\ idx' = idx + 1
    /\ pc' = "loop"
    /\ UNCHANGED <<html, text, filtered, out, err, input, output>>

\* Variant of FetchRaise in which the loop catches the exception and goes
\* on with the next record.
FetchRaiseSkipsRecord ==
    /\ pc = "fetch"
    /\ log' = Append(log, [ev |-> "raise", rec |-> filtered[idx]])
    /\ idx' = idx + 1
    /\ pc' = "loop"
    /\ UNCHANGED <<html, text, presentations, filtered, out, err,
                   input, output>>

\* line 66: the service raises (no captions, invalid id, network failure);
\* nothing catches the exception and run() ends
FetchRaise ==
    /\ pc = "fetch"
    /\ log' = Append(log, [ev |-> "raise", rec |-> filtered[idx]])
    /\ err' = Some("TranscriptError")
    /\ pc' = "raised"
    /\ UNCHANGED <<html, text, presentations, filtered, idx, out,
                   input, output>>

\* line 86: return filtered_presentations
ReturnTranscripts ==
    /\ pc = "loop"
    /\ idx > Len(filtered)
    /\ pc' = "dump"
    /\ UNCHANGED <<html, text, presentations, filtered, idx, log, out, err,
                   input, output>>

\* line 130: ndjson.dump(presentation_transcripts, open(..., "w"))
Dump ==
    /\ pc = "dump"
    /\ out' = Some([k \in 1..Len(filtered) |-> presentations[filtered[k]]])
    /\ log' = log \o << [ev |-> "open", rec |-> 0], [ev |-> "write", rec |-> 0] >>
    /\ pc' = "done"
    /\ UNCHANGED <<html, text, presentations, filtered, idx, err,
                   input, output>>

Next ==
    \/ Sanitize
    \/ Parse
    \/ Filter
    \/ PrintTitle
    \/ FetchCall
    \/ FetchReturn
    \/ FetchRaise
    \/ ReturnTranscripts
    \/ Dump

Spec == Init /\ [][Next]_vars

(***************************************************************************)
(* The functions on their own: each specification draws an argument in     *)
(* input and applies the function, leaving its result in output.           *)
(***************************************************************************)
Idle ==
    /\ html = <<>>
    /\ text = None
    /\ presentations = <<>>
    /\ filtered = <<>>
    /\ idx = 1
    /\ log = <<>>
    /\ out = None
    /\ err = None

RunVars == <<html, text, presentations, filtered, idx, log, out, err>>

\* parse_html applied to a document
InitParse ==
    /\ Idle
    /\ pc = "parse_html:call"
    /\ input \in SeqsUpTo(ParseCards, MaxParseCards)
    /\ output = None

ParseHtmlCall ==
    /\ pc = "parse_html:call"
    /\ output' = parse_html(input)
    /\ pc' = "parse_html:end"
    /\ UNCHANGED <<input, RunVars>>

NextParse == ParseHtmlCall

SpecParse == InitParse /\ [][NextParse]_vars

\* sanitize_text applied to a text, then to its own result
InitSanitize ==
    /\ Idle
    /\ pc = "sanitize_text:call"
    /\ input \in SeqsUpTo(SanitizeAlphabet, MaxText)
    /\ output = None

SanitizeCall ==
    /\ pc = "sanitize_text:call"
    /\ output' = sanitize_text(input)
    /\ pc' = "sanitize_text:end"
    /\ UNCHANGED <<input, RunVars>>

SanitizeAgain ==
    /\ pc = "sanitize_text:end"
    /\ output.ok
    /\ input' = output.val
    /\ output' = sanitize_text(output.val)
    /\ pc' = "sanitize_text:again"
    /\ UNCHANGED RunVars

NextSanitize == SanitizeCall \/ SanitizeAgain

SpecSanitize == InitSanitize /\ [][NextSanitize]_vars

\* get_transcript applied to an answer of the service, then the collapse
\* applied to its own result
InitTranscript ==
    /\ Idle
    /\ pc = "get_transcript:call"
    /\ input \in SeqsUpTo(Fragments, MaxFragments)
    /\ output = None

GetTranscriptCall ==
    /\ pc = "get_transcript:call"
    /\ output' = get_transcript(input)
    /\ pc' = "get_transcript:end"
    /\ UNCHANGED <<input, RunVars>>

CollapseAgain ==
    /\ pc = "get_transcript:end"
    /\ input' = output
    /\ output' = Collapse(output)
    /\ pc' = "get_transcript:again"
    /\ UNCHANGED RunVars

NextTranscript == GetTranscriptCall \/ CollapseAgain

SpecTranscript == InitTranscript /\ [][NextTranscript]_vars

(***************************************************************************)
(* Properties of run() (specification Spec).                               *)
(***************************************************************************)
\* The k-th smallest element of a set of indices, and the place of an
\* element among them.
Rank(V, i) == Cardinality({m \in V : m <= i})
Nth(V, k) == CHOOSE i \in V : Rank(V, i) = k

\* The records of presentations that have a video, by index.
WithVideo(recs) == {i \in 1..Len(recs) : ~IsNone(recs[i].video_id)}

\* A record without its transcript.
Base(r) == [k \in DOMAIN r \ {"transcript"} |-> r[k]]

\* C1: every record written to transcripts.ndjson has a video_id that is
\* not None and a transcript key whose value is not None.
C1_WrittenRecordsHaveVideoAndTranscript ==
    ~IsNone(out) =>
        \A k \in 1..Len(Val(out)) :
            LET r == Val(out)[k]
            IN  /\ "video_id" \in DOMAIN r
                /\ ~IsNone(r.video_id)
                /\ "transcript" \in DOMAIN r
                /\ ~IsNone(r.transcript)

\* A run wrote two records while the document held a card without video.
C1_Witness ==
    /\ pc = "done"
    /\ ~IsNone(out)
    /\ Len(Val(out)) >= 2
    /\ Len(presentations) > Len(Val(out))

C3_OutputIsFilteredSubsequence ==
    pc = "done" =>
        LET parsed == parse_html(Val(text)).val
            V == WithVideo(parsed)
        IN  /\ Len(Val(out)) = Cardinality(V)
            /\ \A i \in V : Base(Val(out)[Rank(V, i)]) = parsed[i]

\* Two records with the same title were written and a third was dropped.
C3_Witness ==
    /\ pc = "done"
    /\ Len(Val(out)) = 2
    /\ Val(out)[1].title = Val(out)[2].title
    /\ Val(out)[1].video_id # Val(out)[2].video_id
    /\ Len(presentations) = 3

C5_EarlyFailureHasNoSideEffect ==
    LET s == SanitizeDocument(html)
    IN  (~s.ok \/ ~parse_html(s.val).ok) =>
            /\ log = <<>>
            /\ IsNone(out)
            /\ pc \in {"sanitize", "parse", "raised"}

\* parse_html raised on a card without headline that follows a card with
\* a video.
C5_Witness ==
    /\ pc = "raised"
    /\ err = Some("AttributeError")
    /\ Len(html) >= 2
    /\ ~IsNone(html[1].headline)
    /\ IsNone(html[2].headline)

\* sanitize_text raised on a document whose first card has a video.
C5_WitnessAssertion ==
    /\ pc = "raised"
    /\ err = Some("AssertionError")
    /\ Len(html) >= 2
    /\ html[1].headline = Some(KeynoteTitle)

(***************************************************************************)
(* Properties of parse_html (specification SpecParse).                     *)
(***************************************************************************)
\* A card with its five sub-elements and the srcset of its image.
WellFormed(card) ==
    /\ ~IsNone(card.time)
    /\ ~IsNone(card.label)
    /\ ~IsNone(card.glue_label)
    /\ ~IsNone(card.headline)
    /\ ~IsNone(card.img)
    /\ "srcset" \in DOMAIN Val(card.img)

UrlOf(card) == Val(card.img)["srcset"]

BaseFields == {"title", "presentation_type", "categories", "video_id", "time"}

\* C6: for a document of N well-formed cards parse_html returns N
\* records, the i-th built from the i-th card, each with the five base
\* fields, its video_id set exactly when the srcset starts with the
\* recognized prefix.
C6_OneRecordPerWellFormedCard ==
    (pc = "parse_html:end" /\ \A i \in 1..Len(input) : WellFormed(input[i])) =>
        /\ output.ok
        /\ Len(output.val) = Len(input)
        /\ \A i \in 1..Len(input) :
              LET r == output.val[i]
              IN  /\ DOMAIN r = BaseFields
                  /\ r.title = Val(input[i].headline)
                  /\ r.presentation_type = Val(input[i].label)
                  /\ ~IsNone(r.video_id) <=> StartsWith(UrlOf(input[i]), YtimgPrefix)

\* C7: the video_id derived from the srcset of a card parse_html reaches
\* is the fifth "/"-separated segment when the srcset starts with
\* https://i.ytimg.com/vi, and None when it does not.
C7_VideoIdIsFifthSegment ==
    pc = "parse_html:end" =>
        \A i \in 1..Len(input) :
            (i <= Len(output.val) + 1 /\ WellFormed(input[i])) =>
                /\ i <= Len(output.val)
                /\ IF StartsWith(UrlOf(input[i]), YtimgPrefix)
                   THEN /\ Len(Split(UrlOf(input[i]), "/")) >= 5
                        /\ output.val[i].video_id
                             = Some(Split(UrlOf(input[i]), "/")[5])
                   ELSE IsNone(output.val[i].video_id)

\* C8: the categories of a record are the texts of the spans of the
\* category container that have no aria-hidden attribute, whatever the
\* value of the attribute, in the order of the markup.
C8_CategoriesAreVisibleSpans ==
    pc = "parse_html:end" =>
        \A i \in 1..Len(output.val) :
            LET spans == Val(input[i].glue_label)
                cats == output.val[i].categories
                V == {j \in 1..Len(spans) :
                          "aria-hidden" \notin DOMAIN spans[j].attrs}
            IN  /\ Len(cats) = Cardinality(V)
                /\ \A j \in V : cats[Rank(V, j)] = spans[j].text

\* A record was built from a container whose first span has
\* aria-hidden="false" and whose second span is visible.
C8_Witness ==
    /\ pc = "parse_html:end"
    /\ \E i \in 1..Len(output.val) :
          LET spans == Val(input[i].glue_label)
          IN  /\ Len(spans) = 2
              /\ "aria-hidden" \in DOMAIN spans[1].attrs
              /\ spans[1].attrs["aria-hidden"] = "false"
              /\ output.val[i].categories = <<"Security">>

(***************************************************************************)
(* Properties of get_transcript (specification SpecTranscript).            *)
(***************************************************************************)
\* No whitespace at either end and no two whitespace characters in a row.
Collapsed(s) ==
    /\ Len(s) > 0 => ~IsSpace(Char(s, 1)) /\ ~IsSpace(Char(s, Len(s)))
    /\ \A i \in 1..(Len(s) - 1) : ~(IsSpace(Char(s, i)) /\ IsSpace(Char(s, i + 1)))

\* C9: the result of get_transcript has no leading, trailing or doubled
\* whitespace, and collapsing it again returns it unchanged.
C9_CollapseIsIdempotent ==
    /\ pc \in {"get_transcript:end", "get_transcript:again"} => Collapsed(output)
    /\ pc = "get_transcript:again" => output = input

\* The collapse was applied again to a transcript of two words.
C9_Witness ==
    /\ pc = "get_transcript:again"
    /\ input = "a a"
    /\ output = "a a"

(***************************************************************************)
(* Properties of sanitize_text (specification SpecSanitize).               *)
(***************************************************************************)
\* C10: sanitize_text returns a 7-bit text unchanged without failing, and
\* returns any of its own results unchanged.
C10_SanitizeIsIdentityOnAscii ==
    /\ (pc \in {"sanitize_text:end", "sanitize_text:again"} /\ IsAscii(input)) =>
          /\ output.ok
          /\ output.val = input
    /\ pc = "sanitize_text:again" => output.ok /\ output.val = input

\* sanitize_text was applied to a result of its own that holds the
\* replacement values of unsafe_chars.
C10_Witness ==
    /\ pc = "sanitize_text:again"
    /\ input = <<39, 45, 97>>
    /\ output = Ok(<<39, 45, 97>>)

====
